---- MODULE Spec2Model ----
(***************************************************************************)
(* A model of the video processing pipeline: the run coordinator           *)
(* processMatrix and main (src/src/utils.ts, the index part of the file),  *)
(* the retry wrapper retry (src/src/utils.ts), the Amazon Transcribe       *)
(* adapter (src/src/transcription/amazonTranscribe.ts), the analysis       *)
(* adapters (src/src/aiService.ts), the word grouping of the AssemblyAI    *)
(* and Amazon adapters, the output directory of VideoProcessor, the        *)
(* helpers removeExistingDirectory and parseCommandLineArgs, and the       *)
(* Gemini transcription adapter (src/src/transcription/gemini.ts).         *)
(*                                                                         *)
(* The state machines share the variables of the module.  Each of the      *)
(* specifications SpecMatrix, SpecRetry, SpecAmazon, SpecAnalyze,          *)
(* SpecGroup, SpecStage, SpecMain, SpecDir, SpecRemove, SpecParse,         *)
(* SpecItems, SpecCalls and SpecTemp runs one of them and leaves the       *)
(* variables of the others at their idle values.                           *)
(***************************************************************************)
EXTENDS Integers, Sequences, FiniteSets, TLC

VARIABLES
    \* ---- processMatrix ----
    pc,                     \* position in processMatrix
    transcriptionServices,  \* parameter: the ordered list of providers
    onlyTranscribe,         \* parameter
    includeImages,          \* videoProcessor.getIncludeImages()
    svcIdx,                 \* position of the transcription loop
    transcriptions,         \* keys of the mapping, in insertion order
    transcribeLog,          \* provider -> "none" | "ok" | "fail": outcome of its call
    transcriptSaved,        \* the transcript writes that succeeded
    transcriptTried,        \* the transcript writes that were started
    entryIdx,               \* position of the loop over Object.entries(transcriptions)
    anIdx,                  \* position among the three analyses of one entry
    analysisCalls,          \* pairs <<t, a>> whose analysis adapter was called
    analysisFailed,         \* pairs <<t, a>> whose try block ended in its catch
    analysisSaved,          \* pairs <<t, a>> whose saveAnalysis returned
    files,                  \* analysis file name -> the pair whose document it holds
    error,                  \* what processMatrix raised, "none" if nothing
    \* ---- retry ----
    rPc, maxRetries, rI, rCalls, rWaits, rErrors, lastError, rOpValue, rResult,
    delayMs,                \* parameter: the wait between two attempts
    rWaited,                \* the lengths of the waits made, in order
    \* ---- transcribeWithAmazon ----
    mPc, uploadedToS3, filesCreated, jobStatus, polls, transcript, deletes,
    s3Objects, mError,
    \* ---- AIService.analyzeWith... ----
    aiPc, aiAdapter, aiIncludeImages, aiFrames, aiI, aiFrameReads, aiApiCalls,
    \* ---- the word grouping of the AssemblyAI and Amazon adapters ----
    gPc,                    \* "input" while the word stream grows, then "done"
    words,                  \* the word stream, each word a sequence of characters
    asmSegments,            \* the segments of the AssemblyAI grouping
    amzSegments,            \* the segments of convertAmazonTranscriptToTimestamps
    \* ---- one stage of processMatrix, call by call ----
    sPc,                    \* "loop" between two calls, "awaiting" during one
    sStage,                 \* "transcription" or "analysis"
    sCalls,                 \* the number of provider calls of the stage
    sI,                     \* the call the loop is at
    sIssued,                \* the calls that were issued
    sOutcome,               \* call -> "none" | "ok" | "fail": how it settled
    \* ---- main ----
    nPc,                    \* position in main
    ffmpegAvailable,        \* environment: ffmpeg -version runs
    nServices,              \* main's transcriptionServices
    env,                    \* environment: the variables that are set
    missingEnvVars,         \* the variables main reported as missing
    folderExists,           \* environment: the video folder exists
    folderVideos,           \* environment: the supported video files in it
    videoFiles,             \* the list getVideoFiles returned
    scanned,                \* getVideoFiles was called
    vI,                     \* position of the loop over videoFiles
    visited,                \* the videos whose pass of the loop ran, in order
    videoOutcome,           \* video -> how its pass of the loop ended
    exitCode,               \* "running", or the status the process ended with
    \* ---- the output directory of one video over several runs ----
    dPc,                    \* position in the run: "construct", "writing", "ended"
    dRun,                   \* the number of the run
    dirExists,              \* the output directory of the video exists
    dirFiles,               \* file name -> the run that wrote it last, 0 if absent
    dStep,                  \* the output file the run is at
    \* ---- removeExistingDirectory ----
    ePc,                    \* position in removeExistingDirectory
    eExists,                \* the directory exists
    eEntries,               \* the entries the directory holds
    eI,                     \* the loop variable i
    eRmCalls,               \* the calls of rmSync on the directory
    eRmOk,                  \* a call of rmSync on the directory returned
    eWaits,                 \* the waits between two attempts
    eTodo,                  \* the entries the content clearing has still to visit
    eCleared,               \* the entries the content clearing visited
    \* ---- parseCommandLineArgs ----
    cPc,                    \* position in parseCommandLineArgs
    argv,                   \* process.argv.slice(2)
    cI,                     \* position of args.forEach
    options,                \* the options object
    parsed,                 \* the ProcessingOptions returned
    \* ---- convertAmazonTranscriptToTimestamps on a list of items ----
    tPc,                    \* position of the conversion of an item list
    tItems,                 \* transcript.results.items
    tSegments,              \* the segments returned
    \* ---- the calls of the remote operations of one video ----
    kPc,                    \* position: in processMatrix or inside an adapter's retry
    kServices,              \* transcriptionServices
    kOnly,                  \* onlyTranscribe
    kIdx,                   \* position of the transcription loop
    kEntry,                 \* position of the loop over the entries of transcriptions
    kAn,                    \* number of the analysis of the entry
    kTranscribed,           \* the keys of transcriptions
    kI,                     \* the loop variable i of the retry call in progress
    kCalls,                 \* attempts of the remote operation of the adapter call in progress
    kLog,                   \* the adapter calls made, in order
    \* ---- transcribeWithGemini and its temporary file ----
    uPc,                    \* position in transcribeWithGemini
    tempFile,               \* whether the file at tempFilePath exists
    unlinkTried,            \* whether fs.promises.unlink was called on tempFilePath
    uPending,               \* the value or error the try/catch handed to finally
    uResult,                \* what the call returned or raised
    isAudio,                \* parameter: the file is the audio track
    uCall                   \* number of the call within the retry of transcribe

mvars == <<pc, transcriptionServices, onlyTranscribe, includeImages, svcIdx,
           transcriptions, transcribeLog, transcriptSaved, transcriptTried,
           entryIdx, anIdx, analysisCalls, analysisFailed, analysisSaved, files,
           error>>
rvars == <<rPc, maxRetries, rI, rCalls, rWaits, rErrors, lastError, rOpValue, rResult,
           delayMs, rWaited>>
avars == <<mPc, uploadedToS3, filesCreated, jobStatus, polls, transcript, deletes,
           s3Objects, mError>>
aivars == <<aiPc, aiAdapter, aiIncludeImages, aiFrames, aiI, aiFrameReads, aiApiCalls>>
gvars == <<gPc, words, asmSegments, amzSegments>>
svars == <<sPc, sStage, sCalls, sI, sIssued, sOutcome>>
nvars == <<nPc, ffmpegAvailable, nServices, env, missingEnvVars, folderExists,
           folderVideos, videoFiles, scanned, vI, visited, videoOutcome, exitCode>>
dvars == <<dPc, dRun, dirExists, dirFiles, dStep>>
evars == <<ePc, eExists, eEntries, eI, eRmCalls, eRmOk, eWaits, eTodo, eCleared>>
cvars == <<cPc, argv, cI, options, parsed>>
tvars == <<tPc, tItems, tSegments>>
kvars == <<kPc, kServices, kOnly, kIdx, kEntry, kAn, kTranscribed, kI, kCalls, kLog>>
uvars == <<uPc, tempFile, unlinkTried, uPending, uResult, isAudio, uCall>>
xvars == <<aivars, gvars, svars, nvars, dvars, evars, cvars, tvars, kvars, uvars>>
vars == <<mvars, rvars, avars, xvars>>

(***************************************************************************)
(* Bounds                                                                  *)
(***************************************************************************)
MaxServices == 2
MaxAttempts == 3
MaxPolls == 3

(***************************************************************************)
(* Provider identities and file names                                      *)
(***************************************************************************)
TranscriptionServiceType == {"openai", "amazon", "assemblyai", "gemini"}

\* the three analyses of one entry, in the order of the code
AnalysisProviders == <<"openai", "anthropic", "gemini">>

\* the ternary that turns a provider into the tag used in file names
serviceShortName(service) ==
    IF service = "openai" THEN "openai"
    ELSE IF service = "amazon" THEN "amazon"
    ELSE "assemblyai"

\* the aiName argument handed to saveAnalysis
aiName(a, service) == <<a, "_transcribed_by_", serviceShortName(service)>>

\* the file name saveAnalysis writes to
analysisFileName(name, withImages) ==
    <<"analysis_">> \o name \o <<IF withImages THEN "_with_images" ELSE "", ".json">>

\* the tags a file name carries
analysisTagOf(fileName) == fileName[2]
transcriptionTagOf(fileName) == fileName[4]

NoDup(s) == \A i, j \in 1..Len(s) : i # j => s[i] # s[j]

ServiceLists ==
    {s \in UNION {[1..n -> TranscriptionServiceType] : n \in 1..MaxServices} : NoDup(s)}

\* the default value of processMatrix's fifth parameter; main passes four arguments
includeImagesArg == FALSE

Write(f, name, content) ==
    [n \in DOMAIN f \cup {name} |-> IF n = name THEN content ELSE f[n]]

(***************************************************************************)
(* Idle values of the machines a specification does not run                *)
(***************************************************************************)
MatrixIdle ==
    /\ pc = "idle"
    /\ transcriptionServices = <<>>
    /\ onlyTranscribe = FALSE
    /\ includeImages = FALSE
    /\ svcIdx = 0
    /\ transcriptions = <<>>
    /\ transcribeLog = [s \in TranscriptionServiceType |-> "none"]
    /\ transcriptSaved = {}
    /\ transcriptTried = {}
    /\ entryIdx = 0
    /\ anIdx = 0
    /\ analysisCalls = {}
    /\ analysisFailed = {}
    /\ analysisSaved = {}
    /\ files = [n \in {} |-> <<>>]
    /\ error = "none"

NoError == [id |-> "none", permanent |-> FALSE]

RetryIdle ==
    /\ rPc = "idle"
    /\ maxRetries = 0
    /\ rI = 0
    /\ rCalls = 0
    /\ rWaits = 0
    /\ rErrors = <<>>
    /\ lastError = NoError
    /\ rOpValue = "none"
    /\ rResult = "none"
    /\ delayMs = 0
    /\ rWaited = << >>

AmazonIdle ==
    /\ mPc = "idle"
    /\ uploadedToS3 = FALSE
    /\ filesCreated = <<>>
    /\ jobStatus = "none"
    /\ polls = 0
    /\ transcript = "null"
    /\ deletes = {}
    /\ s3Objects = {}
    /\ mError = "none"

AnalyzeIdle ==
    /\ aiPc = "idle"
    /\ aiAdapter = "none"
    /\ aiIncludeImages = FALSE
    /\ aiFrames = 0
    /\ aiI = 0
    /\ aiFrameReads = 0
    /\ aiApiCalls = 0

GroupIdle ==
    /\ gPc = "idle"
    /\ words = << >>
    /\ asmSegments = << >>
    /\ amzSegments = << >>

StageIdle ==
    /\ sPc = "idle"
    /\ sStage = "none"
    /\ sCalls = 0
    /\ sI = 0
    /\ sIssued = {}
    /\ sOutcome = << >>

MainIdle ==
    /\ nPc = "idle"
    /\ ffmpegAvailable = FALSE
    /\ nServices = << >>
    /\ env = {}
    /\ missingEnvVars = {}
    /\ folderExists = FALSE
    /\ folderVideos = 0
    /\ videoFiles = << >>
    /\ scanned = FALSE
    /\ vI = 0
    /\ visited = << >>
    /\ videoOutcome = << >>
    /\ exitCode = "running"

DirIdle ==
    /\ dPc = "idle"
    /\ dRun = 0
    /\ dirExists = FALSE
    /\ dirFiles = << >>
    /\ dStep = 0

RemoveIdle ==
    /\ ePc = "idle"
    /\ eExists = FALSE
    /\ eEntries = {}
    /\ eI = 0
    /\ eRmCalls = 0
    /\ eRmOk = FALSE
    /\ eWaits = 0
    /\ eTodo = {}
    /\ eCleared = {}

ParseIdle ==
    /\ cPc = "idle"
    /\ argv = << >>
    /\ cI = 0
    /\ options = << >>
    /\ parsed = << >>

ItemsIdle ==
    /\ tPc = "idle"
    /\ tItems = << >>
    /\ tSegments = << >>

CallsIdle ==
    /\ kPc = "idle"
    /\ kServices = << >>
    /\ kOnly = FALSE
    /\ kIdx = 0
    /\ kEntry = 0
    /\ kAn = 0
    /\ kTranscribed = << >>
    /\ kI = 0
    /\ kCalls = 0
    /\ kLog = << >>

TempIdle ==
    /\ uPc = "idle"
    /\ tempFile = FALSE
    /\ unlinkTried = FALSE
    /\ uPending = "none"
    /\ uResult = "none"
    /\ isAudio = FALSE
    /\ uCall = 0

\* the machines added to the first three, idle
ExtraIdle == AnalyzeIdle /\ GroupIdle /\ StageIdle /\ MainIdle /\ DirIdle /\ RemoveIdle /\ ParseIdle /\ ItemsIdle /\ CallsIdle /\ TempIdle

(***************************************************************************)
(* processMatrix                                                           *)
(***************************************************************************)
MatrixInit ==
    /\ pc = "start"
    /\ transcriptionServices \in ServiceLists
    /\ onlyTranscribe \in BOOLEAN
    /\ includeImages \in BOOLEAN
    /\ svcIdx = 1
    /\ transcriptions = <<>>
    /\ transcribeLog = [s \in TranscriptionServiceType |-> "none"]
    /\ transcriptSaved = {}
    /\ transcriptTried = {}
    /\ entryIdx = 1
    /\ anIdx = 1
    /\ analysisCalls = {}
    /\ analysisFailed = {}
    /\ analysisSaved = {}
    /\ files = [n \in {} |-> <<>>]
    /\ error = "none"

\* Steps 1 and 2: extractAudio, the early return, extractFrames
ExtractMedia ==
    /\ pc = "start"
    /\ \E audioOk \in BOOLEAN, framesOk \in BOOLEAN :
          IF ~audioOk THEN /\ pc' = "failed"
                           /\ error' = "ExtractAudioError"
          ELSE IF includeImagesArg THEN /\ pc' = "done"
                                        /\ error' = "none"
          ELSE IF ~framesOk THEN /\ pc' = "failed"
                                 /\ error' = "ExtractFramesError"
          ELSE /\ pc' = "transcribing"
               /\ error' = "none"
    /\ UNCHANGED <<transcriptionServices, onlyTranscribe, includeImages, svcIdx,
                   transcriptions, transcribeLog, transcriptSaved, transcriptTried, entryIdx, anIdx,
                   analysisCalls, analysisFailed, analysisSaved, files,
                   rvars, avars, xvars>>

\* Step 3, one pass of the loop whose transcribe call returns: the provider is
\* recorded in the mapping, then its two transcript files are written; a
\* failed write ends the try block in the catch, which goes on with the loop
TranscribeOk ==
    /\ pc = "transcribing"
    /\ svcIdx <= Len(transcriptionServices)
    /\ LET service == transcriptionServices[svcIdx] IN
         /\ transcribeLog' = [transcribeLog EXCEPT ![service] = "ok"]
         /\ transcriptions' = Append(transcriptions, service)
         /\ \E saved \in {{}, {<<"json", service>>},
                          {<<"json", service>>, <<"raw", service>>}} :
               /\ transcriptSaved' = transcriptSaved \cup saved
               /\ transcriptTried' =
                     transcriptTried \cup {<<"json", service>>}
                        \cup (IF saved = {} THEN {} ELSE {<<"raw", service>>})
    /\ svcIdx' = svcIdx + 1
    /\ UNCHANGED <<pc, transcriptionServices, onlyTranscribe, includeImages,
                   entryIdx, anIdx, analysisCalls, analysisFailed, analysisSaved,
                   files, error,
                   rvars, avars, xvars>>

\* the variant of TranscribeFail in which the catch rethrows
TranscribeFailRethrow ==
    /\ pc = "transcribing"
    /\ svcIdx <= Len(transcriptionServices)
    /\ transcribeLog' = [transcribeLog EXCEPT ![transcriptionServices[svcIdx]] = "fail"]
    /\ pc' = "failed"
    /\ error' = "TranscriptionError"
    /\ UNCHANGED <<transcriptionServices, onlyTranscribe, includeImages, svcIdx,
                   transcriptions, transcriptSaved, transcriptTried, entryIdx, anIdx, analysisCalls,
                   analysisFailed, analysisSaved, files,
                   rvars, avars, xvars>>

\* Step 3, one pass of the loop whose transcribe call throws: caught and logged
TranscribeFail ==
    /\ pc = "transcribing"
    /\ svcIdx <= Len(transcriptionServices)
    /\ transcribeLog' = [transcribeLog EXCEPT ![transcriptionServices[svcIdx]] = "fail"]
    /\ svcIdx' = svcIdx + 1
    /\ UNCHANGED <<pc, transcriptionServices, onlyTranscribe, includeImages,
                   transcriptions, transcriptSaved, transcriptTried, entryIdx, anIdx, analysisCalls,
                   analysisFailed, analysisSaved, files, error,
                   rvars, avars, xvars>>

\* the variant of CheckTranscriptions without the test for an empty mapping
CheckTranscriptionsNoThrow ==
    /\ pc = "transcribing"
    /\ svcIdx > Len(transcriptionServices)
    /\ pc' = IF onlyTranscribe THEN "done" ELSE "analyzing"
    /\ UNCHANGED <<transcriptionServices, onlyTranscribe, includeImages, svcIdx,
                   transcriptions, transcribeLog, transcriptSaved, transcriptTried, entryIdx, anIdx,
                   analysisCalls, analysisFailed, analysisSaved, files, error,
                   rvars, avars, xvars>>

\* the variant of CheckTranscriptions that ignores onlyTranscribe
CheckTranscriptionsAlwaysAnalyze ==
    /\ pc = "transcribing"
    /\ svcIdx > Len(transcriptionServices)
    /\ IF Len(transcriptions) = 0
       THEN /\ pc' = "failed"
            /\ error' = "AllTranscriptionServicesFailed"
       ELSE /\ pc' = "analyzing"
            /\ error' = "none"
    /\ UNCHANGED <<transcriptionServices, onlyTranscribe, includeImages, svcIdx,
                   transcriptions, transcribeLog, transcriptSaved, transcriptTried, entryIdx, anIdx,
                   analysisCalls, analysisFailed, analysisSaved, files,
                   rvars, avars, xvars>>

\* the variant of CheckTranscriptions that does not wait for the end of the loop
CheckTranscriptionsBeforeLoopEnd ==
    /\ pc = "transcribing"
    /\ IF Len(transcriptions) = 0
       THEN /\ pc' = "failed"
            /\ error' = "AllTranscriptionServicesFailed"
       ELSE /\ pc' = IF onlyTranscribe THEN "done" ELSE "analyzing"
            /\ error' = "none"
    /\ UNCHANGED <<transcriptionServices, onlyTranscribe, includeImages, svcIdx,
                   transcriptions, transcribeLog, transcriptSaved, transcriptTried, entryIdx, anIdx,
                   analysisCalls, analysisFailed, analysisSaved, files,
                   rvars, avars, xvars>>

\* after the loop: the test for an empty mapping and the choice of step 4
CheckTranscriptions ==
    /\ pc = "transcribing"
    /\ svcIdx > Len(transcriptionServices)
    /\ IF Len(transcriptions) = 0
       THEN /\ pc' = "failed"
            /\ error' = "AllTranscriptionServicesFailed"
       ELSE /\ pc' = IF onlyTranscribe THEN "done" ELSE "analyzing"
            /\ error' = "none"
    /\ UNCHANGED <<transcriptionServices, onlyTranscribe, includeImages, svcIdx,
                   transcriptions, transcribeLog, transcriptSaved, transcriptTried, entryIdx, anIdx,
                   analysisCalls, analysisFailed, analysisSaved, files,
                   rvars, avars, xvars>>

\* the pair the analysis loops are at
CurrentPair == <<transcriptions[entryIdx], AnalysisProviders[anIdx]>>

\* the move to the next analysis, or to the next entry after the third
AdvanceAnalysis ==
    IF anIdx < Len(AnalysisProviders)
    THEN /\ anIdx' = anIdx + 1
         /\ entryIdx' = entryIdx
    ELSE /\ anIdx' = 1
         /\ entryIdx' = entryIdx + 1

\* Step 4, one analysis whose adapter call and whose saveAnalysis both return
AnalyzeOk ==
    /\ pc = "analyzing"
    /\ entryIdx <= Len(transcriptions)
    /\ analysisCalls' = analysisCalls \cup {CurrentPair}
    /\ analysisSaved' = analysisSaved \cup {CurrentPair}
    /\ files' = Write(files,
                      analysisFileName(aiName(CurrentPair[2], CurrentPair[1]),
                                       includeImages),
                      CurrentPair)
    /\ AdvanceAnalysis
    /\ UNCHANGED <<pc, transcriptionServices, onlyTranscribe, includeImages, svcIdx,
                   transcriptions, transcribeLog, transcriptSaved, transcriptTried, analysisFailed,
                   error,
                   rvars, avars, xvars>>

\* the variant of AnalyzeFail in which the catch rethrows
AnalyzeFailRethrow ==
    /\ pc = "analyzing"
    /\ entryIdx <= Len(transcriptions)
    /\ analysisCalls' = analysisCalls \cup {CurrentPair}
    /\ analysisFailed' = analysisFailed \cup {CurrentPair}
    /\ pc' = "failed"
    /\ error' = "AnalysisError"
    /\ UNCHANGED <<transcriptionServices, onlyTranscribe, includeImages, svcIdx,
                   transcriptions, transcribeLog, transcriptSaved, transcriptTried, entryIdx, anIdx,
                   analysisSaved, files,
                   rvars, avars, xvars>>

\* Step 4, one analysis whose adapter call or whose saveAnalysis throws: the
\* catch logs the error, nothing is written for the pair
AnalyzeFail ==
    /\ pc = "analyzing"
    /\ entryIdx <= Len(transcriptions)
    /\ analysisCalls' = analysisCalls \cup {CurrentPair}
    /\ analysisFailed' = analysisFailed \cup {CurrentPair}
    /\ AdvanceAnalysis
    /\ UNCHANGED <<pc, transcriptionServices, onlyTranscribe, includeImages, svcIdx,
                   transcriptions, transcribeLog, transcriptSaved, transcriptTried, analysisSaved,
                   files, error,
                   rvars, avars, xvars>>

\* the end of step 4: the summary is printed and processMatrix returns
FinishAnalysis ==
    /\ pc = "analyzing"
    /\ entryIdx > Len(transcriptions)
    /\ pc' = "done"
    /\ UNCHANGED <<transcriptionServices, onlyTranscribe, includeImages, svcIdx,
                   transcriptions, transcribeLog, transcriptSaved, transcriptTried, entryIdx, anIdx,
                   analysisCalls, analysisFailed, analysisSaved, files, error,
                   rvars, avars, xvars>>

MatrixNext ==
    \/ ExtractMedia
    \/ TranscribeOk
    \/ TranscribeFail
    \/ CheckTranscriptions
    \/ AnalyzeOk
    \/ AnalyzeFail
    \/ FinishAnalysis

InitMatrix == MatrixInit /\ RetryIdle /\ AmazonIdle /\ ExtraIdle

SpecMatrix == InitMatrix /\ [][MatrixNext]_vars

(***************************************************************************)
(* retry                                                                   *)
(***************************************************************************)
ErrorIds == {"e1", "e2"}
Errors == [id : ErrorIds, permanent : BOOLEAN]
Values == {"v1", "v2"}

\* the default of delayMs and another value a caller may pass
DelayValues == {1000, 2000}

RetryInit ==
    /\ rPc = "loop"
    /\ maxRetries \in 1..MaxAttempts
    /\ delayMs \in DelayValues
    /\ rWaited = << >>
    /\ rI = 0
    /\ rCalls = 0
    /\ rWaits = 0
    /\ rErrors = <<>>
    /\ lastError = NoError
    /\ rOpValue = "none"
    /\ rResult = "none"

\* one pass of the loop whose operation returns: retry returns its value
RetryAttemptOk ==
    /\ rPc = "loop"
    /\ rI < maxRetries
    /\ \E v \in Values :
          /\ rOpValue' = v
          /\ rResult' = v
    /\ rCalls' = rCalls + 1
    /\ rPc' = "returned"
    /\ UNCHANGED <<maxRetries, delayMs, rI, rWaits, rWaited, rErrors, lastError, mvars, avars, xvars>>

\* the variant of RetryAttemptFail that keeps the first error it caught
RetryAttemptFailKeepFirst ==
    /\ rPc = "loop"
    /\ rI < maxRetries
    /\ \E e \in Errors :
          /\ rErrors' = Append(rErrors, e)
          /\ lastError' = IF rErrors = <<>> THEN e ELSE lastError
    /\ rCalls' = rCalls + 1
    /\ IF rI < maxRetries - 1
       THEN /\ rPc' = "waiting"
            /\ rI' = rI
       ELSE /\ rPc' = "loop"
            /\ rI' = rI + 1
    /\ UNCHANGED <<maxRetries, delayMs, rWaits, rWaited, rOpValue, rResult, mvars, avars, xvars>>

\* the variant of RetryAttemptFail that leaves the loop on a permanent error
RetryAttemptFailStopOnPermanent ==
    /\ rPc = "loop"
    /\ rI < maxRetries
    /\ \E e \in Errors :
          /\ rErrors' = Append(rErrors, e)
          /\ lastError' = e
          /\ IF rI < maxRetries - 1 /\ ~e.permanent
             THEN /\ rPc' = "waiting"
                  /\ rI' = rI
             ELSE /\ rPc' = "loop"
                  /\ rI' = maxRetries
    /\ rCalls' = rCalls + 1
    /\ UNCHANGED <<maxRetries, delayMs, rWaits, rWaited, rOpValue, rResult, mvars, avars, xvars>>

\* one pass of the loop whose operation throws: the error is kept in
\* lastError, and a wait follows unless this was the last pass
RetryAttemptFail ==
    /\ rPc = "loop"
    /\ rI < maxRetries
    /\ \E e \in Errors :
          /\ rErrors' = Append(rErrors, e)
          /\ lastError' = e
    /\ rCalls' = rCalls + 1
    /\ IF rI < maxRetries - 1
       THEN /\ rPc' = "waiting"
            /\ rI' = rI
       ELSE /\ rPc' = "loop"
            /\ rI' = rI + 1
    /\ UNCHANGED <<maxRetries, delayMs, rWaits, rWaited, rOpValue, rResult, mvars, avars, xvars>>

\* the variant of RetryWait whose wait grows with the number of the pass
RetryWaitBackoff ==
    /\ rPc = "waiting"
    /\ rWaits' = rWaits + 1
    /\ rWaited' = Append(rWaited, delayMs * (rI + 1))
    /\ rI' = rI + 1
    /\ rPc' = "loop"
    /\ UNCHANGED <<maxRetries, delayMs, rCalls, rErrors, lastError, rOpValue, rResult,
                   mvars, avars, xvars>>

\* the timer of delayMs fires and the loop goes to its next pass
RetryWait ==
    /\ rPc = "waiting"
    /\ rWaits' = rWaits + 1
    /\ rWaited' = Append(rWaited, delayMs)
    /\ rI' = rI + 1
    /\ rPc' = "loop"
    /\ UNCHANGED <<maxRetries, delayMs, rCalls, rErrors, lastError, rOpValue, rResult,
                   mvars, avars, xvars>>

\* the loop is over: throw lastError
RetryThrow ==
    /\ rPc = "loop"
    /\ rI >= maxRetries
    /\ rResult' = lastError
    /\ rPc' = "raised"
    /\ UNCHANGED <<maxRetries, delayMs, rI, rCalls, rWaits, rWaited, rErrors, lastError, rOpValue,
                   mvars, avars, xvars>>

RetryNext ==
    \/ RetryAttemptOk
    \/ RetryAttemptFail
    \/ RetryWait
    \/ RetryThrow

InitRetry == MatrixIdle /\ RetryInit /\ AmazonIdle /\ ExtraIdle

SpecRetry == InitRetry /\ [][RetryNext]_vars

(***************************************************************************)
(* AmazonTranscribeService.transcribeWithAmazon                            *)
(***************************************************************************)
s3Key == "s3Key"
outputKey == "outputKey"

\* what GetTranscriptionJob can report: the four statuses of the service, no
\* status at all (read as '' by the code), and a status the code does not know
JobStatuses == {"QUEUED", "IN_PROGRESS", "COMPLETED", "FAILED", "", "OTHER"}

Range(s) == {s[i] : i \in 1..Len(s)}

AmazonInit ==
    /\ mPc = "headBucket"
    /\ uploadedToS3 = FALSE
    /\ filesCreated = <<>>
    /\ jobStatus = "none"
    /\ polls = 0
    /\ transcript = "null"
    /\ deletes = {}
    /\ s3Objects = {}
    /\ mError = "none"

\* cleanupS3Files over a bucket holding the given objects: a delete is issued
\* for every key, each in its own try
CleanupS3Files(keys, objects) ==
    /\ deletes' = deletes \cup Range(keys)
    /\ \E undeleted \in SUBSET Range(keys) :
          s3Objects' = objects \ (Range(keys) \ undeleted)

\* the catch block of transcribeWithAmazon for an error thrown with the given
\* flag, list and bucket content, then the rethrow of the original error
CatchAndRethrow(uploaded, created, objects, err) ==
    /\ IF uploaded /\ Len(created) > 0
       THEN CleanupS3Files(created, objects)
       ELSE /\ deletes' = deletes
            /\ s3Objects' = objects
    /\ mError' = err
    /\ mPc' = "raised"

\* HeadBucketCommand, before the try block
HeadBucket ==
    /\ mPc = "headBucket"
    /\ \E ok \in BOOLEAN :
          IF ok THEN /\ mPc' = "putObject"
                     /\ mError' = mError
                ELSE /\ mPc' = "raised"
                     /\ mError' = "S3BucketError"
    /\ UNCHANGED <<uploadedToS3, filesCreated, jobStatus, polls, transcript,
                   deletes, s3Objects, mvars, rvars, xvars>>

\* PutObjectCommand
PutObject ==
    /\ mPc = "putObject"
    /\ \E ok \in BOOLEAN :
          IF ok THEN /\ uploadedToS3' = TRUE
                     /\ filesCreated' = Append(filesCreated, s3Key)
                     /\ s3Objects' = s3Objects \cup {s3Key}
                     /\ mPc' = "startJob"
                     /\ UNCHANGED <<deletes, mError>>
                ELSE /\ CatchAndRethrow(uploadedToS3, filesCreated, s3Objects, "PutObjectError")
                     /\ UNCHANGED <<uploadedToS3, filesCreated>>
    /\ UNCHANGED <<jobStatus, polls, transcript, mvars, rvars, xvars>>

\* StartTranscriptionJobCommand
StartTranscriptionJob ==
    /\ mPc = "startJob"
    /\ \E ok \in BOOLEAN :
          IF ok THEN /\ mPc' = "polling"
                     /\ UNCHANGED <<deletes, s3Objects, mError>>
                ELSE CatchAndRethrow(uploadedToS3, filesCreated, s3Objects, "StartJobError")
    /\ UNCHANGED <<uploadedToS3, filesCreated, jobStatus, polls, transcript,
                   mvars, rvars, xvars>>

Saturate(n) == IF n < MaxPolls THEN n + 1 ELSE n

\* one pass of the polling loop whose GetTranscriptionJobCommand throws; the
\* job runs on the side of the service, so it may have completed and written
\* its output before this poll failed
PollThrows ==
    /\ mPc = "polling"
    /\ polls' = Saturate(polls)
    /\ \E outputWritten \in BOOLEAN :
          CatchAndRethrow(uploadedToS3, filesCreated,
                          IF outputWritten THEN s3Objects \cup {outputKey}
                                           ELSE s3Objects,
                          "GetJobError")
    /\ UNCHANGED <<uploadedToS3, filesCreated, jobStatus, transcript, mvars, rvars, xvars>>

\* one pass of the polling loop that reads COMPLETED: the job has written its
\* output, the output key is recorded, the transcript is downloaded and parsed
PollCompleted ==
    /\ mPc = "polling"
    /\ polls' = Saturate(polls)
    /\ jobStatus' = "COMPLETED"
    /\ filesCreated' = Append(filesCreated, outputKey)
    /\ \E outcome \in {"GetObjectError", "ParseError", "parsed"} :
          IF outcome = "parsed"
          THEN /\ \E t \in {"valid", "noItems", "null"} : transcript' = t
               /\ s3Objects' = s3Objects \cup {outputKey}
               /\ mPc' = "polled"
               /\ UNCHANGED <<deletes, mError>>
          ELSE /\ transcript' = transcript
               /\ CatchAndRethrow(uploadedToS3, Append(filesCreated, outputKey),
                                  s3Objects \cup {outputKey}, outcome)
    /\ UNCHANGED <<uploadedToS3, mvars, rvars, xvars>>

\* one pass of the polling loop that reads FAILED
PollFailed ==
    /\ mPc = "polling"
    /\ polls' = Saturate(polls)
    /\ jobStatus' = "FAILED"
    /\ CatchAndRethrow(uploadedToS3, filesCreated, s3Objects, "TranscriptionJobFailed")
    /\ UNCHANGED <<uploadedToS3, filesCreated, transcript, mvars, rvars, xvars>>

\* one pass of the polling loop that reads anything else: the else branch
\* logs the status and waits five seconds
PollOther ==
    /\ mPc = "polling"
    /\ polls' = Saturate(polls)
    /\ \E st \in JobStatuses \ {"COMPLETED", "FAILED"} : jobStatus' = st
    /\ mPc' = "waiting"
    /\ UNCHANGED <<uploadedToS3, filesCreated, transcript, deletes, s3Objects,
                   mError, mvars, rvars, xvars>>

\* the five seconds are over: while (!completed) polls again
PollWait ==
    /\ mPc = "waiting"
    /\ mPc' = "polling"
    /\ UNCHANGED <<uploadedToS3, filesCreated, jobStatus, polls, transcript,
                   deletes, s3Objects, mError, mvars, rvars, xvars>>

\* after the loop: the format test, the conversion, the cleanup, the return
FinishTranscribe ==
    /\ mPc = "polled"
    /\ IF transcript # "valid"
       THEN CatchAndRethrow(uploadedToS3, filesCreated, s3Objects, "InvalidTranscriptFormat")
       ELSE /\ CleanupS3Files(filesCreated, s3Objects)
            /\ mPc' = "returned"
            /\ mError' = mError
    /\ UNCHANGED <<uploadedToS3, filesCreated, jobStatus, polls, transcript,
                   mvars, rvars, xvars>>

AmazonNext ==
    \/ HeadBucket
    \/ PutObject
    \/ StartTranscriptionJob
    \/ PollThrows
    \/ PollCompleted
    \/ PollFailed
    \/ PollOther
    \/ PollWait
    \/ FinishTranscribe

InitAmazon == MatrixIdle /\ RetryIdle /\ AmazonInit /\ ExtraIdle

SpecAmazon == InitAmazon /\ [][AmazonNext]_vars

\* the event loop runs every timer and every settled promise
FairSpecAmazon == SpecAmazon /\ WF_vars(AmazonNext)

(***************************************************************************)
(* Properties of processMatrix                                             *)
(***************************************************************************)
Succeeded == {s \in TranscriptionServiceType : transcribeLog[s] = "ok"}
Analyzers == Range(AnalysisProviders)
ExtractErrors == {"ExtractAudioError", "ExtractFramesError"}
StageOver == pc \in {"analyzing", "done", "failed"} /\ error \notin ExtractErrors

\* C1: at the end of a run in analysis mode in which no analysis pair failed,
\* the analysis files are exactly one per pair (t, a) with t a provider whose
\* transcription succeeded and a one of the three analysis providers.
C1_MatrixIsProduct ==
    (pc = "done" /\ ~onlyTranscribe /\ analysisFailed = {}) =>
        /\ {files[n] : n \in DOMAIN files} = Succeeded \X Analyzers
        /\ Cardinality(DOMAIN files) = Cardinality(Succeeded \X Analyzers)

\* C4: once the transcription stage is over, every provider of the list has
\* been invoked, whatever failed before it, and a provider is a key of the
\* mapping exactly when its own transcribe call succeeded.
C4_FailureIsolated ==
    StageOver =>
        \A i \in 1..Len(transcriptionServices) :
            LET service == transcriptionServices[i] IN
              /\ transcribeLog[service] # "none"
              /\ (service \in Range(transcriptions)) <=> (transcribeLog[service] = "ok")

\* C4 happens: the first provider failed, the second was invoked and is in the mapping
C4_Witness ==
    /\ pc = "done"
    /\ Len(transcriptionServices) = 2
    /\ transcribeLog[transcriptionServices[1]] = "fail"
    /\ transcriptions = <<transcriptionServices[2]>>

\* C5: processMatrix returns only if a provider succeeded; when every provider
\* failed the stage ends with the all-failed error and without any analysis
\* call; that error is raised in no other case.
C5_AllFailedIsFatal ==
    /\ pc = "done" => Succeeded # {}
    /\ analysisCalls # {} => Succeeded # {}
    /\ (StageOver /\ Succeeded = {}) =>
          /\ pc = "failed"
          /\ error = "AllTranscriptionServicesFailed"
    /\ error = "AllTranscriptionServicesFailed" =>
          /\ Succeeded = {}
          /\ analysisCalls = {}
          /\ \A i \in 1..Len(transcriptionServices) :
                transcribeLog[transcriptionServices[i]] = "fail"

\* C5 happens: two providers, both failed, the run raised the all-failed error
C5_Witness ==
    /\ pc = "failed"
    /\ error = "AllTranscriptionServicesFailed"
    /\ Len(transcriptionServices) = 2
    /\ \A i \in 1..2 : transcribeLog[transcriptionServices[i]] = "fail"

C7_NamesEncodeBothProviders ==
    /\ \A n \in DOMAIN files :
          /\ analysisTagOf(n) = files[n][2]
          /\ transcriptionTagOf(n) = files[n][1]
    /\ \A p \in analysisSaved : \E n \in DOMAIN files : files[n] = p

\* C8: in transcription-only mode no analysis adapter is called, no analysis
\* file is written and the analysis stage is never entered.
C8_OnlyTranscribeSkipsAnalysis ==
    onlyTranscribe =>
        /\ analysisCalls = {}
        /\ DOMAIN files = {}
        /\ pc # "analyzing"

\* C8 happens: a transcription-only run with a surviving provider has ended
C8_Witness ==
    /\ onlyTranscribe
    /\ pc = "done"
    /\ transcriptions # <<>>

(***************************************************************************)
(* Properties of retry                                                     *)
(***************************************************************************)
\* C2: a retry call that returned has called the operation once more than it
\* failed, fewer than maxRetries failures came first and the value is the one
\* the operation returned; a retry call that raised has called the operation
\* exactly maxRetries times, all failed, and raises the error of the last one.
C2_RetryContract ==
    /\ rPc = "returned" =>
          /\ Len(rErrors) < maxRetries
          /\ rCalls = Len(rErrors) + 1
          /\ rResult = rOpValue
    /\ rPc = "raised" =>
          /\ Len(rErrors) = maxRetries
          /\ rCalls = maxRetries
          /\ rResult = rErrors[maxRetries]

\* C2 happens: three attempts failed with different errors and retry raised
C2_Witness ==
    /\ rPc = "raised"
    /\ maxRetries = 3
    /\ rErrors[1] # rErrors[3]

\* C3 as stated: no call of the operation follows an attempt that failed with
\* an error classified as permanent.
C3_PermanentEndsRetry ==
    \A j \in 1..Len(rErrors) : rErrors[j].permanent => rCalls = j

\* C3 amended: classification does not matter; an attempt that failed with a
\* permanent error is followed by another call unless it was the maxRetries-th,
\* and a retry call that raises a permanent error has made maxRetries calls.
C3_PermanentIsRetried ==
    /\ rPc \in {"returned", "raised"} =>
          \A j \in 1..Len(rErrors) :
              (rErrors[j].permanent /\ j < maxRetries) => rCalls > j
    /\ (rPc = "raised" /\ rResult.permanent) => rCalls = maxRetries

\* C3 happens: the first attempt failed permanently and a second call was made
C3_Witness ==
    /\ rPc \in {"returned", "raised"}
    /\ Len(rErrors) >= 1
    /\ rErrors[1].permanent
    /\ rCalls >= 2

(***************************************************************************)
(* Properties of transcribeWithAmazon                                      *)
(***************************************************************************)
\* the statuses the Transcribe service reports for a job
ServiceStatuses == {"QUEUED", "IN_PROGRESS", "COMPLETED", "FAILED"}

\* C9: transcribeWithAmazon ends, by returning or by raising, for every
\* sequence of job statuses the service may report, a job that stays in
\* progress forever included.
C9_PollingTerminates ==
    [](jobStatus \in ServiceStatuses \cup {"none"}) => <>(mPc \in {"returned", "raised"})

\* C10: a poll that reads FAILED, no status or an unknown status ends the call
\* with an error; the loop waits for another poll only on QUEUED or IN_PROGRESS.
C10_UnexpectedStatusRaises ==
    /\ jobStatus \in {"FAILED", "", "OTHER"} => mPc = "raised"
    /\ mPc = "waiting" => jobStatus \in {"QUEUED", "IN_PROGRESS"}

\* C11: when transcribeWithAmazon has returned or raised, a delete has been
\* issued for every object of the call that the bucket holds: the uploaded
\* audio and the transcript output of the job.
C11_EveryObjectDeleteIssued ==
    mPc \in {"returned", "raised"} => s3Objects \subseteq deletes

(***************************************************************************)
(* AIService.analyzeWithOpenAI, analyzeWithAnthropic, analyzeWithGemini    *)
(***************************************************************************)
MaxFrames == 2

\* the default of retry's maxRetries, which the adapters do not override
DefaultMaxRetries == 3

notAi == <<mvars, rvars, avars, gvars, svars, nvars, dvars, evars, cvars, tvars, kvars, uvars>>

AnalyzeInit ==
    /\ aiPc = "loop"
    /\ aiAdapter \in Range(AnalysisProviders)
    /\ aiIncludeImages \in BOOLEAN
    /\ aiFrames \in 0..MaxFrames
    /\ aiI = 0
    /\ aiFrameReads = 0
    /\ aiApiCalls = 0

\* the variant of FrameReads that maps over the frames whatever the flag says
FrameReadsIgnoringFlag(adapter, include, frames) == frames

\* the frame files one run of the adapter's operation reads: Promise.all over
\* frames.map starts one read per frame, in the branch of includeImages only
FrameReads(adapter, include, frames) ==
    CASE adapter = "openai"    -> IF include THEN frames ELSE 0
      [] adapter = "anthropic" -> IF include THEN frames ELSE 0
      [] adapter = "gemini"    -> IF include THEN frames ELSE 0

\* one run of the operation that returns: the content is built, the API answers
AnalyzeAttemptOk ==
    /\ aiPc = "loop"
    /\ aiI < DefaultMaxRetries
    /\ aiFrameReads' = aiFrameReads + FrameReads(aiAdapter, aiIncludeImages, aiFrames)
    /\ aiApiCalls' = aiApiCalls + 1
    /\ aiPc' = "returned"
    /\ UNCHANGED <<aiAdapter, aiIncludeImages, aiFrames, aiI, notAi>>

\* one run of the operation that throws, in a frame read or in the API call
AnalyzeAttemptFail ==
    /\ aiPc = "loop"
    /\ aiI < DefaultMaxRetries
    /\ aiFrameReads' = aiFrameReads + FrameReads(aiAdapter, aiIncludeImages, aiFrames)
    /\ \E readFailed \in BOOLEAN :
          /\ readFailed => FrameReads(aiAdapter, aiIncludeImages, aiFrames) > 0
          /\ aiApiCalls' = IF readFailed THEN aiApiCalls ELSE aiApiCalls + 1
    /\ IF aiI < DefaultMaxRetries - 1
       THEN /\ aiPc' = "waiting"
            /\ aiI' = aiI
       ELSE /\ aiPc' = "loop"
            /\ aiI' = aiI + 1
    /\ UNCHANGED <<aiAdapter, aiIncludeImages, aiFrames, notAi>>

\* the delay of retry between two runs of the operation
AnalyzeWait ==
    /\ aiPc = "waiting"
    /\ aiI' = aiI + 1
    /\ aiPc' = "loop"
    /\ UNCHANGED <<aiAdapter, aiIncludeImages, aiFrames, aiFrameReads, aiApiCalls,
                   notAi>>

\* retry gives up and the adapter raises
AnalyzeThrow ==
    /\ aiPc = "loop"
    /\ aiI >= DefaultMaxRetries
    /\ aiPc' = "raised"
    /\ UNCHANGED <<aiAdapter, aiIncludeImages, aiFrames, aiI, aiFrameReads,
                   aiApiCalls, notAi>>

AnalyzeNext ==
    \/ AnalyzeAttemptOk
    \/ AnalyzeAttemptFail
    \/ AnalyzeWait
    \/ AnalyzeThrow

InitAnalyze == MatrixIdle /\ RetryIdle /\ AmazonIdle /\ AnalyzeInit /\ GroupIdle /\ StageIdle /\ MainIdle /\ DirIdle /\ RemoveIdle /\ ParseIdle /\ ItemsIdle /\ CallsIdle /\ TempIdle

SpecAnalyze == InitAnalyze /\ [][AnalyzeNext]_vars

\* C12: with includeImages false no analysis adapter reads a frame file, on
\* any attempt of its retry, whatever the frames list holds.
C12_NoFrameReadWithoutImages ==
    ~aiIncludeImages => aiFrameReads = 0

\* C12 happens: images off, a non-empty frames list, three attempts were made
C12_Witness ==
    /\ aiPc = "raised"
    /\ ~aiIncludeImages
    /\ aiFrames > 0
    /\ aiApiCalls = 3

(***************************************************************************)
(* The word grouping of transcribeWithAssemblyAI and of                    *)
(* convertAmazonTranscriptToTimestamps                                     *)
(***************************************************************************)
MaxWords == 12
MaxPunctuated == 2

\* the word-count thresholds of the two adapters
AssemblyWordLimit == 10
AmazonWordLimit == 15

notGroup == <<mvars, rvars, avars, aivars, svars, nvars, dvars, evars, cvars, tvars, kvars, uvars>>

\* a word is the sequence of its characters; only the last one matters here
Punctuation == {".", "!", "?", ";", ","}
Word(p) == IF p = "" THEN <<"w">> ELSE <<"w", p>>
WordTexts == {Word(p) : p \in Punctuation \cup {""}}
LastChar(w) == w[Len(w)]
Punctuated(ws) == {i \in 1..Len(ws) : Len(ws[i]) > 1}

\* the variant of endsWithPunctuation without the semicolon
endsWithTerminalPunctuation(w) == LastChar(w) \in {".", "!", "?"}

\* word.text?.match(/[.!?;]$/)
endsWithPunctuation(w) == LastChar(w) \in {".", "!", "?", ";"}

\* the for loop of transcribeWithAssemblyAI from word i on, and the segment
\* of the remaining words after it; a segment is the list of its words
RECURSIVE AssemblyLoop(_, _, _, _, _)
AssemblyLoop(ws, i, segmentWords, wordCount, segments) ==
    IF i > Len(ws)
    THEN IF Len(segmentWords) > 0 THEN Append(segments, segmentWords) ELSE segments
    ELSE LET pushed == Append(segmentWords, ws[i])
             count  == wordCount + 1
         IN  IF (count >= AssemblyWordLimit \/ endsWithPunctuation(ws[i]))
                /\ Len(pushed) > 0
             THEN AssemblyLoop(ws, i + 1, << >>, 0, Append(segments, pushed))
             ELSE AssemblyLoop(ws, i + 1, pushed, count, segments)

AssemblySegments(ws) == AssemblyLoop(ws, 1, << >>, 0, << >>)

\* the items Amazon Transcribe reports for a word stream: a pronunciation item
\* per word, followed by a punctuation item when the word carries one
RECURSIVE AmazonItems(_)
AmazonItems(ws) ==
    IF ws = << >> THEN << >>
    ELSE LET w == Head(ws)
         IN  (IF Len(w) > 1
              THEN << [type |-> "pronunciation", content |-> SubSeq(w, 1, Len(w) - 1)],
                      [type |-> "punctuation", content |-> LastChar(w)] >>
              ELSE << [type |-> "pronunciation", content |-> w] >>)
             \o AmazonItems(Tail(ws))

\* the forEach of convertAmazonTranscriptToTimestamps from item index on
RECURSIVE AmazonLoop(_, _, _, _, _)
AmazonLoop(items, index, currentWords, sentenceStart, segments) ==
    IF index > Len(items) THEN segments
    ELSE
    LET item == items[index]
        n    == Len(currentWords)
        \* the branch of the item's type
        attached == IF n > 0
                    THEN [currentWords EXCEPT ![n] = Append(@, item.content)]
                    ELSE currentWords
        closes == item.type = "punctuation" /\ item.content \in {".", "?", "!"}
        words1 == IF item.type = "pronunciation" THEN Append(currentWords, item.content)
                  ELSE IF closes THEN << >> ELSE attached
        start1 == IF item.type = "pronunciation" THEN FALSE
                  ELSE IF closes THEN TRUE ELSE sentenceStart
        segs1  == IF closes THEN Append(segments, attached) ELSE segments
        \* 15 words or more without punctuation
        full   == Len(words1) >= AmazonWordLimit /\ ~start1
        words2 == IF full THEN << >> ELSE words1
        start2 == IF full THEN TRUE ELSE start1
        segs2  == IF full THEN Append(segs1, words1) ELSE segs1
        \* the final segment
        segs3  == IF index = Len(items) /\ Len(words2) > 0
                  THEN Append(segs2, words2) ELSE segs2
    IN  AmazonLoop(items, index + 1, words2, start2, segs3)

convertAmazonTranscriptToTimestamps(items) == AmazonLoop(items, 1, << >>, TRUE, << >>)

GroupInit ==
    /\ gPc = "input"
    /\ words = << >>
    /\ asmSegments = << >>
    /\ amzSegments = << >>

\* the provider reports one more word
GroupWord ==
    /\ gPc = "input"
    /\ Len(words) < MaxWords
    /\ \E w \in WordTexts :
          /\ Cardinality(Punctuated(Append(words, w))) <= MaxPunctuated
          /\ words' = Append(words, w)
    /\ UNCHANGED <<gPc, asmSegments, amzSegments, notGroup>>

\* both adapters convert the word stream
GroupConvert ==
    /\ gPc = "input"
    /\ Len(words) > 0
    /\ asmSegments' = AssemblySegments(words)
    /\ amzSegments' = convertAmazonTranscriptToTimestamps(AmazonItems(words))
    /\ gPc' = "done"
    /\ UNCHANGED <<words, notGroup>>

GroupNext ==
    \/ GroupWord
    \/ GroupConvert

InitGroup == MatrixIdle /\ RetryIdle /\ AmazonIdle /\ AnalyzeIdle /\ GroupInit /\ StageIdle /\ MainIdle /\ DirIdle /\ RemoveIdle /\ ParseIdle /\ ItemsIdle /\ CallsIdle /\ TempIdle

SpecGroup == InitGroup /\ [][GroupNext]_vars

\* the words after which a list of segments has a boundary
RECURSIVE WordsIn(_, _)
WordsIn(segments, k) == IF k = 0 THEN 0 ELSE WordsIn(segments, k - 1) + Len(segments[k])
Boundaries(segments) == {WordsIn(segments, k) : k \in 1..Len(segments)}

\* the position of word i in its pending group: the words since the boundary before it
PendingAt(bounds, i) ==
    LET before == {b \in bounds : b < i}
    IN  i - (IF before = {} THEN 0 ELSE CHOOSE b \in before : \A c \in before : c <= b)

\* C13: the AssemblyAI grouping closes a segment after a word exactly when the
\* word is the 10th of the pending group, or ends with '.', '!' or '?', or is
\* the last word of the input.
C13_AssemblyBoundaries ==
    gPc = "done" =>
        \A i \in 1..Len(words) :
            i \in Boundaries(asmSegments)
            <=> \/ PendingAt(Boundaries(asmSegments), i) = 10
                \/ LastChar(words[i]) \in {".", "!", "?"}
                \/ i = Len(words)

\* C13, as the code has it: the AssemblyAI grouping closes a segment after a
\* word exactly when the word is the 10th of the pending group, or ends with
\* '.', '!', '?' or ';', or is the last word of the input; when the 2nd word
\* ends with '.' and the 1st with none of the four characters, the first
\* segment is exactly the first two words.
C13_AssemblyBoundariesWithSemicolon ==
    gPc = "done" =>
        /\ \A i \in 1..Len(words) :
              i \in Boundaries(asmSegments)
              <=> \/ PendingAt(Boundaries(asmSegments), i) = 10
                  \/ LastChar(words[i]) \in {".", "!", "?", ";"}
                  \/ i = Len(words)
        /\ (/\ Len(words) >= 2
            /\ LastChar(words[2]) = "."
            /\ LastChar(words[1]) \notin {".", "!", "?", ";"})
           => asmSegments[1] = SubSeq(words, 1, 2)

\* C13 happens: a word ending with ';' and then eleven plain words give the
\* segments of 1, 10 and 1 words
C13_Witness ==
    /\ gPc = "done"
    /\ Len(words) = 12
    /\ Punctuated(words) = {1}
    /\ LastChar(words[1]) = ";"
    /\ Boundaries(asmSegments) = {1, 11, 12}

\* C14: the AssemblyAI grouping and the Amazon grouping place the segment
\* boundaries after the same words of every word stream.
C14_SameBoundaries ==
    gPc = "done" => Boundaries(asmSegments) = Boundaries(amzSegments)

(***************************************************************************)
(* Properties of the stages of processMatrix                               *)
(***************************************************************************)
\* the moves between the positions of processMatrix that follow the order
\* extraction, transcription, then analysis or the end
StageOrder ==
    {<<"start", "transcribing">>, <<"start", "failed">>,
     <<"transcribing", "transcribing">>, <<"transcribing", "analyzing">>,
     <<"transcribing", "done">>, <<"transcribing", "failed">>,
     <<"analyzing", "analyzing">>, <<"analyzing", "done">>}

InStageOrder(from, to) == <<from, to>> \in StageOrder

\* C15: processMatrix moves through its stages in the order extraction,
\* transcription, then analysis or the end: no transcription call is made
\* before the extraction has finished, no analysis call before every
\* transcription call has settled, and nothing more happens for the video
\* once the run has failed.
C15_StagesInOrder ==
    /\ [](pc = "start" =>
             \A s \in TranscriptionServiceType : transcribeLog[s] = "none")
    /\ [](analysisCalls # {} =>
             \A s \in Range(transcriptionServices) : transcribeLog[s] # "none")
    /\ [][InStageOrder(pc, pc')]_mvars
    /\ [][pc # "failed"]_mvars

\* C15 happens: a run went through the three stages, with a provider that failed
C15_Witness ==
    /\ pc = "done"
    /\ analysisCalls # {}
    /\ \E s \in Range(transcriptionServices) : transcribeLog[s] = "fail"

(***************************************************************************)
(* The loops of processMatrix over the provider calls of one stage, with   *)
(* the issue of a call and its settling as separate steps                  *)
(***************************************************************************)
notStage == <<mvars, rvars, avars, aivars, gvars, nvars, dvars, evars, cvars, tvars, kvars, uvars>>

\* the calls of a stage: one per provider of the list in the transcription
\* stage, three per entry of the mapping in the analysis stage
StageCalls(stage, n) ==
    IF stage = "transcription" THEN n ELSE n * Len(AnalysisProviders)

StageInit ==
    /\ sPc = "loop"
    /\ sStage \in {"transcription", "analysis"}
    /\ \E n \in 1..MaxServices : sCalls = StageCalls(sStage, n)
    /\ sI = 1
    /\ sIssued = {}
    /\ sOutcome = [c \in 1..sCalls |-> "none"]

\* the variant of StageCall that starts every call of the stage at once
StageCallAll ==
    /\ sPc = "loop"
    /\ sI <= sCalls
    /\ sIssued' = 1..sCalls
    /\ sPc' = "awaiting"
    /\ UNCHANGED <<sStage, sCalls, sI, sOutcome, notStage>>

\* the loop reaches its next call and starts it: await transcribe(...),
\* await analyzeWith...(...)
StageCall ==
    /\ sPc = "loop"
    /\ sI <= sCalls
    /\ sIssued' = sIssued \cup {sI}
    /\ sPc' = "awaiting"
    /\ UNCHANGED <<sStage, sCalls, sI, sOutcome, notStage>>

\* the awaited call returns and the loop goes on
StageSettleOk ==
    /\ sPc = "awaiting"
    /\ sOutcome' = [sOutcome EXCEPT ![sI] = "ok"]
    /\ sI' = sI + 1
    /\ sPc' = "loop"
    /\ UNCHANGED <<sStage, sCalls, sIssued, notStage>>

\* the awaited call throws, the catch logs it and the loop goes on
StageSettleFail ==
    /\ sPc = "awaiting"
    /\ sOutcome' = [sOutcome EXCEPT ![sI] = "fail"]
    /\ sI' = sI + 1
    /\ sPc' = "loop"
    /\ UNCHANGED <<sStage, sCalls, sIssued, notStage>>

\* the loop is over
StageEnd ==
    /\ sPc = "loop"
    /\ sI > sCalls
    /\ sPc' = "done"
    /\ UNCHANGED <<sStage, sCalls, sI, sIssued, sOutcome, notStage>>

StageNext ==
    \/ StageCall
    \/ StageSettleOk
    \/ StageSettleFail
    \/ StageEnd

InitStage ==
    MatrixIdle /\ RetryIdle /\ AmazonIdle /\ AnalyzeIdle /\ GroupIdle /\ StageInit /\ MainIdle /\ DirIdle /\ RemoveIdle /\ ParseIdle /\ ItemsIdle /\ CallsIdle /\ TempIdle

SpecStage == InitStage /\ [][StageNext]_vars

Settled == {c \in 1..sCalls : sOutcome[c] # "none"}

MaxVideos == 2

notMain == <<mvars, rvars, avars, aivars, gvars, svars, dvars, evars, cvars, tvars, kvars, uvars>>

\* the keys of requiredEnvVars
requiredEnvVars ==
    {"OPENAI_API_KEY", "ANTHROPIC_API_KEY", "GOOGLE_API_KEY", "AWS_ACCESS_KEY_ID",
     "AWS_SECRET_ACCESS_KEY", "ASSEMBLYAI_API_KEY"}

\* the variables the code reads for its credentials and its bucket
EnvVars == requiredEnvVars \cup {"AWS_S3_BUCKET"}

\* the variables the adapter of a transcription provider cannot work without
CredentialsOf(service) ==
    CASE service = "openai"     -> {"OPENAI_API_KEY"}
      [] service = "amazon"     -> {"AWS_ACCESS_KEY_ID", "AWS_SECRET_ACCESS_KEY",
                                    "AWS_S3_BUCKET"}
      [] service = "assemblyai" -> {"ASSEMBLYAI_API_KEY"}
      [] service = "gemini"     -> {"GOOGLE_API_KEY"}

\* what a pass of the loop can end with when processMatrix raises
ProcessErrors ==
    {"ExtractAudioError", "ExtractFramesError", "AllTranscriptionServicesFailed"}

\* the source builds the list [GEMINI]; the other providers are enabled by
\* listing them there, so that the list is an input here
MainInit ==
    /\ nPc = "ffmpeg"
    /\ ffmpegAvailable \in BOOLEAN
    /\ nServices \in ServiceLists
    /\ env \in SUBSET EnvVars
    /\ missingEnvVars = {}
    /\ folderExists \in BOOLEAN
    /\ folderVideos \in 0..MaxVideos
    /\ ~folderExists => folderVideos = 0
    /\ videoFiles = << >>
    /\ scanned = FALSE
    /\ vI = 0
    /\ visited = << >>
    /\ videoOutcome = << >>
    /\ exitCode = "running"

\* process.exit(code)
Exit(code) ==
    /\ nPc' = "exited"
    /\ exitCode' = code

\* checkFFmpeg and the exit when ffmpeg does not run
CheckFFmpeg ==
    /\ nPc = "ffmpeg"
    /\ IF ffmpegAvailable
       THEN /\ nPc' = "env"
            /\ UNCHANGED exitCode
       ELSE Exit(1)
    /\ UNCHANGED <<ffmpegAvailable, nServices, env, missingEnvVars, folderExists,
                   folderVideos, videoFiles, scanned, vI, visited, videoOutcome, notMain>>

\* the test of the required variables
CheckEnvVars ==
    /\ nPc = "env"
    /\ LET missing == {key \in requiredEnvVars : key \notin env} IN
         /\ missingEnvVars' = missing
         /\ IF missing # {}
            THEN Exit(1)
            ELSE /\ nPc' = "scan"
                 /\ UNCHANGED exitCode
    /\ UNCHANGED <<ffmpegAvailable, nServices, env, folderExists, folderVideos,
                   videoFiles, scanned, vI, visited, videoOutcome, notMain>>

\* getVideoFiles: exits when the folder or the videos are missing
GetVideoFiles ==
    /\ nPc = "scan"
    /\ scanned' = TRUE
    /\ IF ~folderExists \/ folderVideos = 0
       THEN /\ Exit(1)
            /\ UNCHANGED <<videoFiles, vI>>
       ELSE /\ videoFiles' = [i \in 1..folderVideos |-> i]
            /\ vI' = 1
            /\ nPc' = "loop"
            /\ UNCHANGED exitCode
    /\ UNCHANGED <<ffmpegAvailable, nServices, env, missingEnvVars, folderExists,
                   folderVideos, visited, videoOutcome, notMain>>

\* the end of one pass of the loop over the videos, with the given outcome
LoopPass(how) ==
    /\ vI <= Len(videoFiles)
    /\ visited' = Append(visited, videoFiles[vI])
    /\ videoOutcome' = Append(videoOutcome, how)
    /\ vI' = vI + 1
    /\ UNCHANGED <<nPc, ffmpegAvailable, nServices, env, missingEnvVars,
                   folderExists, folderVideos, videoFiles, scanned, exitCode, notMain>>

\* the size check throws: the video is skipped
VideoStatFails ==
    /\ nPc = "loop"
    /\ LoopPass("statFailed")

\* processMatrix returns
VideoCompleted ==
    /\ nPc = "loop"
    /\ LoopPass("completed")

\* the variant of VideoFails that ends the process, as a catch with exit(1) would
VideoFailsAndExits ==
    /\ nPc = "loop"
    /\ vI <= Len(videoFiles)
    /\ visited' = Append(visited, videoFiles[vI])
    /\ \E e \in ProcessErrors : videoOutcome' = Append(videoOutcome, e)
    /\ Exit(1)
    /\ UNCHANGED <<ffmpegAvailable, nServices, env, missingEnvVars, folderExists,
                   folderVideos, videoFiles, scanned, vI, notMain>>

\* processMatrix raises: the catch logs the error and the loop goes on
VideoFails ==
    /\ nPc = "loop"
    /\ \E e \in ProcessErrors : LoopPass(e)

\* the loop is over, main returns and the process ends with status 0
MainReturns ==
    /\ nPc = "loop"
    /\ vI > Len(videoFiles)
    /\ Exit(0)
    /\ UNCHANGED <<ffmpegAvailable, nServices, env, missingEnvVars, folderExists,
                   folderVideos, videoFiles, scanned, vI, visited, videoOutcome, notMain>>

MainNext ==
    \/ CheckFFmpeg
    \/ CheckEnvVars
    \/ GetVideoFiles
    \/ VideoStatFails
    \/ VideoCompleted
    \/ VideoFails
    \/ MainReturns

InitMain ==
    /\ MatrixIdle /\ RetryIdle /\ AmazonIdle
    /\ AnalyzeIdle /\ GroupIdle /\ StageIdle /\ DirIdle
    /\ MainInit
    /\ RemoveIdle
    /\ ParseIdle
    /\ ItemsIdle
    /\ CallsIdle
    /\ TempIdle

SpecMain == InitMain /\ [][MainNext]_vars

\* C17: in a batch a failure of one video, a failed size check or an error of
\* processMatrix, is caught and the later videos are still processed: every
\* video of the list gets exactly one pass of the loop, in list order.
C17_EveryVideoOnceInOrder ==
    /\ nPc = "loop" => visited = SubSeq(videoFiles, 1, vI - 1)
    /\ (nPc = "exited" /\ videoFiles # << >>) =>
          /\ visited = videoFiles
          /\ Len(videoOutcome) = Len(videoFiles)
          /\ exitCode = 0

\* C17 happens: the first video failed with no surviving provider, the second
\* failed its size check or completed
C17_Witness ==
    /\ nPc = "exited"
    /\ Len(videoFiles) >= 2
    /\ videoOutcome[1] = "AllTranscriptionServicesFailed"
    /\ videoOutcome[2] \in {"statFailed", "completed"}

\* a fatal precondition occurred in the run of main
FatalPrecondition ==
    \/ ~ffmpegAvailable
    \/ \E key \in requiredEnvVars : key \notin env
    \/ scanned /\ videoFiles = << >>
    \/ \E i \in 1..Len(videoOutcome) : videoOutcome[i] = "AllTranscriptionServicesFailed"

\* C18: the process ends with a non-zero status whenever ffmpeg is missing, a
\* required credential is missing, no input video is found, or a run has no
\* surviving transcription provider.
C18_FatalExitsNonZero ==
    (nPc = "exited" /\ FatalPrecondition) => exitCode # 0

\* the credentials the enabled providers need and the environment lacks
AbsentCredentials == UNION {CredentialsOf(s) : s \in Range(nServices)} \ env

MaxRuns == 2

notDir == <<mvars, rvars, avars, aivars, gvars, svars, nvars, evars, cvars, tvars, kvars, uvars>>

\* the files a run writes into the directory, in the order of its stages
OutputFiles == <<"audio.mp3", "frames", "transcription.json",
                 "analysis_openai.json", "analysis_anthropic.json",
                 "analysis_gemini.json">>

\* the stages a run cannot go on without: the audio, the frames and the
\* transcription of its provider
Needed == {1, 2, 3}

DirInit ==
    /\ dPc = "construct"
    /\ dRun = 1
    /\ dirExists \in BOOLEAN
    /\ dirFiles = [f \in Range(OutputFiles) |-> 0]
    /\ dStep = 1

\* the constructor: the removal of the existing directory is commented out,
\* the directory is created when it does not exist; mkdirSync may throw
Construct ==
    /\ dPc = "construct"
    /\ IF dirExists
       THEN /\ dPc' = "writing"
            /\ UNCHANGED dirExists
       ELSE \E created \in BOOLEAN :
               /\ dirExists' = created
               /\ dPc' = IF created THEN "writing" ELSE "ended"
    /\ UNCHANGED <<dRun, dirFiles, dStep, notDir>>

\* the stage the run is at writes its file
WriteOutput ==
    /\ dPc = "writing"
    /\ dStep <= Len(OutputFiles)
    /\ dirFiles' = [dirFiles EXCEPT ![OutputFiles[dStep]] = dRun]
    /\ dStep' = dStep + 1
    /\ UNCHANGED <<dPc, dRun, dirExists, notDir>>

\* the stage the run is at fails and writes nothing: the run ends there when
\* it cannot go on without the stage, otherwise it goes on
StageFails ==
    /\ dPc = "writing"
    /\ dStep <= Len(OutputFiles)
    /\ IF dStep \in Needed
       THEN /\ dPc' = "ended"
            /\ UNCHANGED dStep
       ELSE /\ dStep' = dStep + 1
            /\ UNCHANGED dPc
    /\ UNCHANGED <<dRun, dirExists, dirFiles, notDir>>

\* the last stage is over
EndRun ==
    /\ dPc = "writing"
    /\ dStep > Len(OutputFiles)
    /\ dPc' = "ended"
    /\ UNCHANGED <<dRun, dirExists, dirFiles, dStep, notDir>>

\* the program is started again on the same video
NextRun ==
    /\ dPc = "ended"
    /\ dRun < MaxRuns
    /\ dRun' = dRun + 1
    /\ dPc' = "construct"
    /\ dStep' = 1
    /\ UNCHANGED <<dirExists, dirFiles, notDir>>

DirNext ==
    \/ Construct
    \/ WriteOutput
    \/ StageFails
    \/ EndRun
    \/ NextRun

InitDir ==
    /\ MatrixIdle /\ RetryIdle /\ AmazonIdle
    /\ AnalyzeIdle /\ GroupIdle /\ StageIdle /\ MainIdle
    /\ DirInit
    /\ RemoveIdle
    /\ ParseIdle
    /\ ItemsIdle
    /\ CallsIdle
    /\ TempIdle

SpecDir == InitDir /\ [][DirNext]_vars

\* C20: the output directory is removed and recreated at the start of every
\* run, so that after the second run it holds only files the second run wrote.
C20_OnlyFilesOfSecondRun ==
    (dRun = 2 /\ dPc = "ended") =>
        \A f \in Range(OutputFiles) : dirFiles[f] \in {0, 2}

(***************************************************************************)
(* removeExistingDirectory                                                 *)
(***************************************************************************)
MaxEntries == 3

\* const maxRetries = 3 of removeExistingDirectory
RemoveMaxRetries == 3

notRemove == <<mvars, rvars, avars, aivars, gvars, svars, nvars, dvars, cvars, tvars, kvars, uvars>>

RemoveInit ==
    /\ ePc = "start"
    /\ eExists \in BOOLEAN
    /\ eEntries \in SUBSET (1..MaxEntries)
    /\ ~eExists => eEntries = {}
    /\ eI = 0
    /\ eRmCalls = 0
    /\ eRmOk = FALSE
    /\ eWaits = 0
    /\ eTodo = {}
    /\ eCleared = {}

\* if (fs.existsSync(dir)): nothing to do for a directory that does not exist
RemoveStart ==
    /\ ePc = "start"
    /\ ePc' = IF eExists THEN "loop" ELSE "returned"
    /\ UNCHANGED <<eExists, eEntries, eI, eRmCalls, eRmOk, eWaits, eTodo, eCleared,
                   notRemove>>

\* the loop has run maxRetries times
RemoveLoopEnd ==
    /\ ePc = "loop"
    /\ eI >= RemoveMaxRetries
    /\ ePc' = "returned"
    /\ UNCHANGED <<eExists, eEntries, eI, eRmCalls, eRmOk, eWaits, eTodo, eCleared,
                   notRemove>>

\* fs.rmSync(dir) returns: break
RmSyncOk ==
    /\ ePc = "loop"
    /\ eI < RemoveMaxRetries
    /\ eRmCalls' = eRmCalls + 1
    /\ eRmOk' = TRUE
    /\ eExists' = FALSE
    /\ eEntries' = {}
    /\ ePc' = "returned"
    /\ UNCHANGED <<eI, eWaits, eTodo, eCleared, notRemove>>

\* the variant of RmSyncFails whose catch clears the contents on the first
\* failure, as a test i === 0 would
RmSyncFailsClearsAtOnce ==
    /\ ePc = "loop"
    /\ eI < RemoveMaxRetries
    /\ eRmCalls' = eRmCalls + 1
    /\ \E left \in SUBSET eEntries : eEntries' = left
    /\ ePc' = "readdir"
    /\ UNCHANGED <<eExists, eI, eRmOk, eWaits, eTodo, eCleared, notRemove>>

\* fs.rmSync(dir) throws, after it removed some of the entries or none: the
\* catch waits when an attempt is left and clears the contents otherwise
RmSyncFails ==
    /\ ePc = "loop"
    /\ eI < RemoveMaxRetries
    /\ eRmCalls' = eRmCalls + 1
    /\ \E left \in SUBSET eEntries : eEntries' = left
    /\ ePc' = IF eI = RemoveMaxRetries - 1 THEN "readdir" ELSE "waiting"
    /\ UNCHANGED <<eExists, eI, eRmOk, eWaits, eTodo, eCleared, notRemove>>

\* Atomics.wait for retryDelay, then the next pass of the loop
RemoveWait ==
    /\ ePc = "waiting"
    /\ eWaits' = eWaits + 1
    /\ eI' = eI + 1
    /\ ePc' = "loop"
    /\ UNCHANGED <<eExists, eEntries, eRmCalls, eRmOk, eTodo, eCleared, notRemove>>

\* fs.readdirSync(dir) returns the entries, or throws and the catch warns
Readdir ==
    /\ ePc = "readdir"
    /\ \E ok \in BOOLEAN :
          IF ok THEN /\ eTodo' = eEntries
                     /\ ePc' = "clearing"
                     /\ UNCHANGED eI
                ELSE /\ eTodo' = {}
                     /\ eI' = eI + 1
                     /\ ePc' = "loop"
    /\ UNCHANGED <<eExists, eEntries, eRmCalls, eRmOk, eWaits, eCleared, notRemove>>

\* the entry the for loop over files is at
NextEntry == CHOOSE f \in eTodo : \A g \in eTodo : f <= g

\* one entry is removed by rmSync or unlinkSync
ClearEntryOk ==
    /\ ePc = "clearing"
    /\ eTodo # {}
    /\ eEntries' = eEntries \ {NextEntry}
    /\ eCleared' = eCleared \cup {NextEntry}
    /\ eTodo' = eTodo \ {NextEntry}
    /\ UNCHANGED <<ePc, eExists, eI, eRmCalls, eRmOk, eWaits, notRemove>>

\* lstatSync, rmSync or unlinkSync throws for one entry: the catch warns
ClearEntryFails ==
    /\ ePc = "clearing"
    /\ eTodo # {}
    /\ eCleared' = eCleared \cup {NextEntry}
    /\ eTodo' = eTodo \ {NextEntry}
    /\ UNCHANGED <<ePc, eExists, eEntries, eI, eRmCalls, eRmOk, eWaits, notRemove>>

\* the for loop over files is over
ClearEnd ==
    /\ ePc = "clearing"
    /\ eTodo = {}
    /\ eI' = eI + 1
    /\ ePc' = "loop"
    /\ UNCHANGED <<eExists, eEntries, eRmCalls, eRmOk, eWaits, eTodo, eCleared,
                   notRemove>>

RemoveNext ==
    \/ RemoveStart
    \/ RemoveLoopEnd
    \/ RmSyncOk
    \/ RmSyncFails
    \/ RemoveWait
    \/ Readdir
    \/ ClearEntryOk
    \/ ClearEntryFails
    \/ ClearEnd

InitRemove ==
    /\ MatrixIdle /\ RetryIdle /\ AmazonIdle
    /\ AnalyzeIdle /\ GroupIdle /\ StageIdle /\ MainIdle /\ DirIdle
    /\ RemoveInit
    /\ ParseIdle
    /\ ItemsIdle
    /\ CallsIdle
    /\ TempIdle

SpecRemove == InitRemove /\ [][RemoveNext]_vars

\* C21: removeExistingDirectory calls the recursive removal at most 3 times,
\* stops at the first call that succeeds, clears the contents entry by entry
\* only after the 3rd call has failed, and never raises to its caller.
C21_RemovalBoundedAndSilent ==
    /\ eRmCalls <= 3
    /\ eRmOk => ePc = "returned"
    /\ (ePc \in {"readdir", "clearing"} \/ eCleared # {}) =>
          (eRmCalls = 3 /\ ~eRmOk)
    /\ ePc \in {"idle", "start", "loop", "waiting", "readdir", "clearing", "returned"}
    /\ ePc = "returned" => (~eExists \/ eRmOk \/ eRmCalls = 3)

\* C21 happens: three calls failed, the clearing visited two entries and could
\* not remove one of them, and the function returned
C21_Witness ==
    /\ ePc = "returned"
    /\ eRmCalls = 3
    /\ Cardinality(eCleared) = 2
    /\ eEntries # {}

(***************************************************************************)
(* Properties of the files of processMatrix                                *)
(***************************************************************************)
\* the name of the combined transcript file
CombinedFileName == "all_transcriptions.json"

\* C22: after a transcription stage in which a provider succeeded, the
\* combined transcript file is written (files holds every file processMatrix
\* writes besides the two transcript files of each provider).
C22_CombinedTranscriptWritten ==
    (pc \in {"analyzing", "done"} /\ Succeeded # {}) =>
        CombinedFileName \in DOMAIN files

\* C23: a failed write skips only its own artifact: when the write of the
\* JSON transcript of a provider fails, the write of its raw text is still
\* started, and the calls of the other providers are still made.
C23_FailedWriteSkipsOnlyItself ==
    /\ \A s \in Range(transcriptions) :
          (<<"json", s>> \in transcriptTried /\ <<"json", s>> \notin transcriptSaved)
             => <<"raw", s>> \in transcriptTried
    /\ pc \in {"analyzing", "done"} =>
          \A s \in Range(transcriptionServices) : transcribeLog[s] # "none"

\* C24: a provider is in the result mapping only if both of its transcript
\* files were written.
C24_MappingOnlyWithBothFiles ==
    \A s \in Range(transcriptions) :
        {<<"json", s>>, <<"raw", s>>} \subseteq transcriptSaved

(***************************************************************************)
(* parseCommandLineArgs                                                    *)
(***************************************************************************)
MaxArgs == 3

notParse == <<mvars, rvars, avars, aivars, gvars, svars, nvars, dvars, evars, tvars, kvars, uvars>>

\* the two flags and an argument that is neither
Arguments == {"no-images", "only-transcribe", "other"}

ParseInit ==
    /\ cPc = "forEach"
    /\ argv \in UNION {[1..n -> Arguments] : n \in 0..MaxArgs}
    /\ cI = 1
    /\ options = [onlyTranscribe |-> TRUE, images |-> FALSE]
    /\ parsed = << >>

\* one call of the callback of args.forEach
ParseArg ==
    /\ cPc = "forEach"
    /\ cI <= Len(argv)
    /\ options' = IF argv[cI] = "no-images" THEN [options EXCEPT !.images = FALSE]
                  ELSE IF argv[cI] = "only-transcribe"
                       THEN [options EXCEPT !.onlyTranscribe = TRUE]
                       ELSE options
    /\ cI' = cI + 1
    /\ UNCHANGED <<cPc, argv, parsed, notParse>>

\* the return statement
ParseReturn ==
    /\ cPc = "forEach"
    /\ cI > Len(argv)
    /\ parsed' = [includeImages |-> options.images,
                  onlyTranscribe |-> options.onlyTranscribe]
    /\ cPc' = "returned"
    /\ UNCHANGED <<argv, cI, options, notParse>>

ParseNext ==
    \/ ParseArg
    \/ ParseReturn

InitParse ==
    /\ MatrixIdle /\ RetryIdle /\ AmazonIdle
    /\ AnalyzeIdle /\ GroupIdle /\ StageIdle /\ MainIdle /\ DirIdle /\ RemoveIdle
    /\ ParseInit
    /\ ItemsIdle
    /\ CallsIdle
    /\ TempIdle

SpecParse == InitParse /\ [][ParseNext]_vars

\* C25: the flags are independent and their order does not matter: images are
\* included unless no-images is given, the analysis runs unless only-transcribe
\* is given.
C25_FlagsDecideTheMode ==
    cPc = "returned" =>
        /\ parsed.includeImages = ("no-images" \notin Range(argv))
        /\ parsed.onlyTranscribe = ("only-transcribe" \in Range(argv))

(***************************************************************************)
(* C26: retry waits delayMs once before each additional attempt and never  *)
(* after the final one: every wait made has the length delayMs; while the  *)
(* loop is about to make an attempt the waits made equal the attempts      *)
(* made; during a wait and when the call has returned or raised the waits  *)
(* made are one less than the attempts made; a wait is never entered after *)
(* attempt number maxRetries; the waits never exceed maxRetries - 1.       *)
(***************************************************************************)
C26_WaitsBetweenAttempts ==
    rPc # "idle" =>
        /\ Len(rWaited) = rWaits
        /\ \A k \in 1..Len(rWaited) : rWaited[k] = delayMs
        /\ rWaits <= maxRetries - 1
        /\ (rPc = "loop" /\ rI < maxRetries) => rWaits = rCalls
        /\ rPc = "waiting" => (rCalls < maxRetries /\ rWaits = rCalls - 1)
        /\ (rPc \in {"returned", "raised"} \/ (rPc = "loop" /\ rI >= maxRetries))
              => rWaits = rCalls - 1

\* three failed attempts, two waits of delayMs between them, then the throw
C26_Witness ==
    /\ rPc = "raised"
    /\ maxRetries = 3
    /\ rCalls = 3
    /\ rWaited = <<delayMs, delayMs>>

(***************************************************************************)
(* The results summary printed at the end of processMatrix                 *)
(***************************************************************************)
\* the provider tags of the lines "Transcription by ...", one per key of the
\* mapping
SummaryProviders == {serviceShortName(t) : t \in Range(transcriptions)}

\* the analysis file names the summary prints: three for every key of the
\* mapping, none in only-transcribe mode
SummaryAnalysisFiles ==
    IF onlyTranscribe THEN {}
    ELSE {analysisFileName(<<a, "_transcribed_by_", serviceShortName(t)>>, includeImages) :
             t \in Range(transcriptions), a \in Analyzers}

\* C27: when processMatrix has printed its summary, every analysis file the
\* summary names was written in this run, and every transcription provider the
\* summary names as used is one whose transcription succeeded.
C27_SummaryNamesOnlyWhatHappened ==
    pc = "done" =>
        /\ SummaryAnalysisFiles \subseteq DOMAIN files
        /\ SummaryProviders \subseteq Succeeded

(***************************************************************************)
(* convertAmazonTranscriptToTimestamps on any list of items                *)
(***************************************************************************)
MaxItems == 16
MaxMarks == 2

notItems == <<mvars, rvars, avars, aivars, gvars, svars, nvars, dvars, evars, cvars, kvars, uvars>>

\* the contents of the punctuation items: two that end a sentence, one that does not
ItemMarks == {".", "?", ","}
Marks(items) == {i \in 1..Len(items) : items[i].type = "punctuation"}

ItemsInit ==
    /\ tPc = "input"
    /\ tItems = << >>
    /\ tSegments = << >>

\* the transcript holds one more pronunciation item
ItemPronunciation ==
    /\ tPc = "input"
    /\ Len(tItems) < MaxItems
    /\ tItems' = Append(tItems, [type |-> "pronunciation", content |-> <<"w">>])
    /\ UNCHANGED <<tPc, tSegments, notItems>>

\* the transcript holds one more punctuation item
ItemPunctuation ==
    /\ tPc = "input"
    /\ Len(tItems) < MaxItems
    /\ Cardinality(Marks(tItems)) < MaxMarks
    /\ \E p \in ItemMarks :
          tItems' = Append(tItems, [type |-> "punctuation", content |-> p])
    /\ UNCHANGED <<tPc, tSegments, notItems>>

\* the conversion of the item list
ItemsConvert ==
    /\ tPc = "input"
    /\ tSegments' = convertAmazonTranscriptToTimestamps(tItems)
    /\ tPc' = "done"
    /\ UNCHANGED <<tItems, notItems>>

ItemsNext ==
    \/ ItemPronunciation
    \/ ItemPunctuation
    \/ ItemsConvert

InitItems == MatrixIdle /\ RetryIdle /\ AmazonIdle /\ AnalyzeIdle /\ GroupIdle /\ StageIdle /\ MainIdle /\ DirIdle /\ RemoveIdle /\ ParseIdle /\ ItemsInit /\ CallsIdle /\ TempIdle

SpecItems == InitItems /\ [][ItemsNext]_vars

\* C28: convertAmazonTranscriptToTimestamps never emits a segment with empty
\* text, whatever the sequence of pronunciation and punctuation items: every
\* segment returned holds at least one word.
C28_NoEmptySegment ==
    tPc = "done" => \A k \in 1..Len(tSegments) : tSegments[k] # << >>

(***************************************************************************)
(* The remote operations of one video: processMatrix calls                 *)
(* TranscriptionManager.transcribe and the three analyze methods, each of  *)
(* which runs its remote operation inside one call of retry                *)
(***************************************************************************)
notCalls == <<mvars, rvars, avars, aivars, gvars, svars, nvars, dvars, evars, cvars, tvars, uvars>>

CallsInit ==
    /\ kPc = "transcribing"
    /\ kServices \in ServiceLists
    /\ kOnly \in BOOLEAN
    /\ kIdx = 1
    /\ kEntry = 1
    /\ kAn = 1
    /\ kTranscribed = << >>
    /\ kI = 0
    /\ kCalls = 0
    /\ kLog = << >>

\* processMatrix calls TranscriptionManager.transcribe, which hands the call
\* to the adapter of the provider; the adapter's transcribe enters retry
CallTranscribe ==
    /\ kPc = "transcribing"
    /\ kIdx <= Len(kServices)
    /\ kLog' = Append(kLog, <<"transcribe", kServices[kIdx]>>)
    /\ kI' = 0
    /\ kCalls' = 0
    /\ kPc' = "retryTranscribe"
    /\ UNCHANGED <<kServices, kOnly, kIdx, kEntry, kAn, kTranscribed, notCalls>>

\* one pass of retry inside the adapter: the remote transcription returns
TranscribeAttemptOk ==
    /\ kPc = "retryTranscribe"
    /\ kI < DefaultMaxRetries
    /\ kCalls' = kCalls + 1
    /\ kTranscribed' = Append(kTranscribed, kServices[kIdx])
    /\ kIdx' = kIdx + 1
    /\ kPc' = "transcribing"
    /\ UNCHANGED <<kServices, kOnly, kEntry, kAn, kI, kLog, notCalls>>

\* one pass of retry inside the adapter: the remote transcription throws
TranscribeAttemptFails ==
    /\ kPc = "retryTranscribe"
    /\ kI < DefaultMaxRetries
    /\ kCalls' = kCalls + 1
    /\ kI' = kI + 1
    /\ UNCHANGED <<kPc, kServices, kOnly, kIdx, kEntry, kAn, kTranscribed, kLog, notCalls>>

\* the variant of TranscribeGivesUp in which the caller runs the adapter again
TranscribeGivesUpAndIsCalledAgain ==
    /\ kPc = "retryTranscribe"
    /\ kI >= DefaultMaxRetries
    /\ kI' = 0
    /\ UNCHANGED <<kPc, kServices, kOnly, kIdx, kEntry, kAn, kTranscribed, kCalls, kLog,
                   notCalls>>

\* retry throws the last error; TranscriptionManager.transcribe passes it on
\* and the catch of processMatrix goes to the next provider
TranscribeGivesUp ==
    /\ kPc = "retryTranscribe"
    /\ kI >= DefaultMaxRetries
    /\ kIdx' = kIdx + 1
    /\ kPc' = "transcribing"
    /\ UNCHANGED <<kServices, kOnly, kEntry, kAn, kTranscribed, kI, kCalls, kLog, notCalls>>

\* after the transcription loop
CallsCheckTranscriptions ==
    /\ kPc = "transcribing"
    /\ kIdx > Len(kServices)
    /\ kPc' = IF Len(kTranscribed) = 0 THEN "failed"
              ELSE IF kOnly THEN "done" ELSE "analyzing"
    /\ UNCHANGED <<kServices, kOnly, kIdx, kEntry, kAn, kTranscribed, kI, kCalls, kLog,
                   notCalls>>

\* processMatrix calls the analyze method of a provider for an entry of
\* transcriptions; the method enters retry
CallAnalyze ==
    /\ kPc = "analyzing"
    /\ kEntry <= Len(kTranscribed)
    /\ kLog' = Append(kLog, <<"analyze", kTranscribed[kEntry], AnalysisProviders[kAn]>>)
    /\ kI' = 0
    /\ kCalls' = 0
    /\ kPc' = "retryAnalyze"
    /\ UNCHANGED <<kServices, kOnly, kIdx, kEntry, kAn, kTranscribed, notCalls>>

\* the move of processMatrix to the next analysis, or to the next entry
CallsAdvance ==
    IF kAn < Len(AnalysisProviders)
    THEN /\ kAn' = kAn + 1
         /\ kEntry' = kEntry
    ELSE /\ kAn' = 1
         /\ kEntry' = kEntry + 1

\* one pass of retry inside the analyze method: the remote call returns
AnalysisAttemptOk ==
    /\ kPc = "retryAnalyze"
    /\ kI < DefaultMaxRetries
    /\ kCalls' = kCalls + 1
    /\ CallsAdvance
    /\ kPc' = "analyzing"
    /\ UNCHANGED <<kServices, kOnly, kIdx, kTranscribed, kI, kLog, notCalls>>

\* one pass of retry inside the analyze method: the remote call throws
AnalysisAttemptFails ==
    /\ kPc = "retryAnalyze"
    /\ kI < DefaultMaxRetries
    /\ kCalls' = kCalls + 1
    /\ kI' = kI + 1
    /\ UNCHANGED <<kPc, kServices, kOnly, kIdx, kEntry, kAn, kTranscribed, kLog, notCalls>>

\* retry throws the last error and the catch of processMatrix goes on
AnalysisGivesUp ==
    /\ kPc = "retryAnalyze"
    /\ kI >= DefaultMaxRetries
    /\ CallsAdvance
    /\ kPc' = "analyzing"
    /\ UNCHANGED <<kServices, kOnly, kIdx, kTranscribed, kI, kCalls, kLog, notCalls>>

\* the end of the analysis loops
CallsFinish ==
    /\ kPc = "analyzing"
    /\ kEntry > Len(kTranscribed)
    /\ kPc' = "done"
    /\ UNCHANGED <<kServices, kOnly, kIdx, kEntry, kAn, kTranscribed, kI, kCalls, kLog,
                   notCalls>>

CallsNext ==
    \/ CallTranscribe
    \/ TranscribeAttemptOk
    \/ TranscribeAttemptFails
    \/ TranscribeGivesUp
    \/ CallsCheckTranscriptions
    \/ CallAnalyze
    \/ AnalysisAttemptOk
    \/ AnalysisAttemptFails
    \/ AnalysisGivesUp
    \/ CallsFinish

InitCalls == MatrixIdle /\ RetryIdle /\ AmazonIdle /\ AnalyzeIdle /\ GroupIdle /\ StageIdle /\ MainIdle /\ DirIdle /\ RemoveIdle /\ ParseIdle /\ ItemsIdle /\ CallsInit /\ TempIdle

SpecCalls == InitCalls /\ [][CallsNext]_vars

\* C29: retries are not nested: for one video every transcription provider
\* and every (transcript, analysis provider) pair is handed to its adapter at
\* most once, and the remote operation of one adapter call is attempted at
\* most 3 times.
C29_AtMostThreeAttempts ==
    /\ NoDup(kLog)
    /\ kCalls <= DefaultMaxRetries

\* a transcription gave up after three attempts, another provider succeeded,
\* and an analysis of its transcript is at its third attempt
C29_Witness ==
    /\ kPc = "retryAnalyze"
    /\ kCalls = 3
    /\ Len(kServices) = 2
    /\ Len(kTranscribed) = 1
    /\ Len(kLog) > 2

(***************************************************************************)
(* GeminiTranscriptionService.transcribeWithGemini and the temporary copy  *)
(* of the media file                                                       *)
(***************************************************************************)
notTemp == <<mvars, rvars, avars, aivars, gvars, svars, nvars, dvars, evars, cvars, tvars, kvars>>

Nothing == [kind |-> "none", of |-> << >>]
Returned(v) == [kind |-> "value", of |-> v]
\* new Error(`Gemini transcription failed: ${error.message}`)
GeminiFailed(message) == [kind |-> "error", of |-> <<"Gemini transcription failed: ", message>>]

TempInit ==
    /\ uPc = "start"
    /\ tempFile = FALSE
    /\ unlinkTried = FALSE
    /\ uPending = Nothing
    /\ uResult = Nothing
    /\ isAudio \in BOOLEAN
    /\ uCall = 1

\* GOOGLE_API_KEY is not set: the throw before the try block
KeyMissing ==
    /\ uPc = "start"
    /\ uResult' = [kind |-> "error", of |-> <<"GOOGLE_API_KEY environment variable is not set">>]
    /\ uPc' = "raised"
    /\ UNCHANGED <<tempFile, unlinkTried, uPending, isAudio, uCall, notTemp>>

\* the key is set, the path of the temporary file is chosen, the try is entered
KeySet ==
    /\ uPc = "start"
    /\ uPc' = "probe"
    /\ UNCHANGED <<tempFile, unlinkTried, uPending, uResult, isAudio, uCall, notTemp>>

\* getMediaDuration rejects
ProbeFails ==
    /\ uPc = "probe"
    /\ \E e \in ErrorIds : uPending' = GeminiFailed(e)
    /\ uPc' = "finally"
    /\ UNCHANGED <<tempFile, unlinkTried, uResult, isAudio, uCall, notTemp>>

\* getMediaDuration resolves
ProbeOk ==
    /\ uPc = "probe"
    /\ uPc' = "copy"
    /\ UNCHANGED <<tempFile, unlinkTried, uPending, uResult, isAudio, uCall, notTemp>>

\* copyFile rejects; the destination may have been created already
CopyFails ==
    /\ uPc = "copy"
    /\ tempFile' \in BOOLEAN
    /\ \E e \in ErrorIds : uPending' = GeminiFailed(e)
    /\ uPc' = "finally"
    /\ UNCHANGED <<unlinkTried, uResult, isAudio, uCall, notTemp>>

\* copyFile resolves
CopyOk ==
    /\ uPc = "copy"
    /\ tempFile' = TRUE
    /\ uPc' = "read"
    /\ UNCHANGED <<unlinkTried, uPending, uResult, isAudio, uCall, notTemp>>

\* readFile rejects
ReadFails ==
    /\ uPc = "read"
    /\ \E e \in ErrorIds : uPending' = GeminiFailed(e)
    /\ uPc' = "finally"
    /\ UNCHANGED <<tempFile, unlinkTried, uResult, isAudio, uCall, notTemp>>

\* readFile resolves, the request is built
ReadOk ==
    /\ uPc = "read"
    /\ uPc' = "api"
    /\ UNCHANGED <<tempFile, unlinkTried, uPending, uResult, isAudio, uCall, notTemp>>

\* generateContent or result.response rejects
ApiFails ==
    /\ uPc = "api"
    /\ \E e \in ErrorIds : uPending' = GeminiFailed(e)
    /\ uPc' = "finally"
    /\ UNCHANGED <<tempFile, unlinkTried, uResult, isAudio, uCall, notTemp>>

\* the response holds no JSON array: segments are made from its paragraphs
ResponseWithoutJson ==
    /\ uPc = "api"
    /\ \E v \in Values : uPending' = Returned(<<"segments of", v>>)
    /\ uPc' = "finally"
    /\ UNCHANGED <<tempFile, unlinkTried, uResult, isAudio, uCall, notTemp>>

\* the response holds a JSON array of timestamps
ResponseParsed ==
    /\ uPc = "api"
    /\ \E v \in Values : uPending' = Returned(<<v>>)
    /\ uPc' = "finally"
    /\ UNCHANGED <<tempFile, unlinkTried, uResult, isAudio, uCall, notTemp>>

\* JSON.parse throws or the array has the wrong format
ResponseUnparsable ==
    /\ uPc = "api"
    /\ uPending' = GeminiFailed("Failed to parse Gemini transcription response")
    /\ uPc' = "finally"
    /\ UNCHANGED <<tempFile, unlinkTried, uResult, isAudio, uCall, notTemp>>

\* the end of the call: the value is returned or the error is thrown
Leave(result) ==
    /\ uResult' = result
    /\ uPc' = IF result.kind = "error" THEN "raised" ELSE "returned"

\* finally: existsSync is false, nothing to remove
FinallyAbsent ==
    /\ uPc = "finally"
    /\ ~tempFile
    /\ Leave(uPending)
    /\ UNCHANGED <<tempFile, unlinkTried, uPending, isAudio, uCall, notTemp>>

\* finally: the file exists and unlink removes it
UnlinkOk ==
    /\ uPc = "finally"
    /\ tempFile
    /\ unlinkTried' = TRUE
    /\ tempFile' = FALSE
    /\ Leave(uPending)
    /\ UNCHANGED <<uPending, isAudio, uCall, notTemp>>

\* the variant of UnlinkFails without the inner catch
UnlinkFailsAndThrows ==
    /\ uPc = "finally"
    /\ tempFile
    /\ unlinkTried' = TRUE
    /\ \E e \in ErrorIds : Leave([kind |-> "error", of |-> <<e>>])
    /\ UNCHANGED <<tempFile, uPending, isAudio, uCall, notTemp>>

\* finally: the file exists and unlink rejects; the inner catch warns
UnlinkFails ==
    /\ uPc = "finally"
    /\ tempFile
    /\ unlinkTried' = TRUE
    /\ Leave(uPending)
    /\ UNCHANGED <<tempFile, uPending, isAudio, uCall, notTemp>>

\* the retry of transcribe calls the operation again after a throw; the new
\* call chooses a new random path for its temporary file
TranscribeCallsAgain ==
    /\ uPc = "raised"
    /\ uCall < DefaultMaxRetries
    /\ uCall' = uCall + 1
    /\ uPc' = "start"
    /\ tempFile' = FALSE
    /\ unlinkTried' = FALSE
    /\ uPending' = Nothing
    /\ uResult' = Nothing
    /\ UNCHANGED <<isAudio, notTemp>>

TempNext ==
    \/ KeyMissing
    \/ KeySet
    \/ ProbeFails
    \/ ProbeOk
    \/ CopyFails
    \/ CopyOk
    \/ ReadFails
    \/ ReadOk
    \/ ApiFails
    \/ ResponseWithoutJson
    \/ ResponseParsed
    \/ ResponseUnparsable
    \/ FinallyAbsent
    \/ UnlinkOk
    \/ UnlinkFails
    \/ TranscribeCallsAgain

InitTemp == MatrixIdle /\ RetryIdle /\ AmazonIdle /\ AnalyzeIdle /\ GroupIdle /\ StageIdle /\ MainIdle /\ DirIdle /\ RemoveIdle /\ ParseIdle /\ ItemsIdle /\ CallsIdle /\ TempInit

SpecTemp == InitTemp /\ [][TempNext]_vars

\* C30: when transcribeWithGemini has returned or raised, the temporary file
\* is absent or its removal was attempted, and what the call returns or
\* raises is what its try and catch blocks decided: a failed removal does not
\* replace it.
C30_TempFileCleanedUp ==
    uPc \in {"returned", "raised"} =>
        /\ ~tempFile \/ unlinkTried
        /\ uPending # Nothing => uResult = uPending

\* the API call failed, the removal of the temporary file failed as well, and
\* the call raised the error of the API call
C30_Witness ==
    /\ uPc = "raised"
    /\ tempFile
    /\ unlinkTried
    /\ uResult = GeminiFailed("e1")

====
